---- MODULE Spec2Model ----
(***************************************************************************)
(* Model of src/src/addr6.rs: the MacAddr6 value type (EUI-48 address), a  *)
(* newtype over [u8; 6], with its constructors, classification predicates, *)
(* byte views, derived equality / ordering and its Display rendering.      *)
(*                                                                         *)
(* An array [u8; 6] is a function on 0..5 (the source's indices), a slice  *)
(* &[u8] is a record [len, data], text is a sequence of one-character      *)
(* strings.  A behaviour follows one binding `addr`: it starts as          *)
(* MacAddr6::default(), is assigned once by new() or from(), and is then   *)
(* used through its methods.                                               *)
(***************************************************************************)
EXTENDS Integers, Sequences, FiniteSets, TLC

VARIABLES addr, ctor, src, orig, written, nwrites, op, arg, ret

vars == <<addr, ctor, src, orig, written, nwrites, op, arg, ret>>

----------------------------------------------------------------------------
(* Bounds of the model.                                                    *)

\* how many of the documentation's example addresses seed the inputs
NumBases == 5

\* how many byte stores through as_mut() one behaviour performs
MaxWrites == 2

----------------------------------------------------------------------------
(* The representation: pub struct MacAddr6([u8; 6]).                       *)

\* number of elements of the array
N == 6

\* bits of a u8
U8Bits == 8

U8Max == 2 ^ U8Bits - 1

Byte == 0 .. U8Max

Idx == 0 .. (N - 1)

\* an array literal [t1, ..., tN] as the array it denotes
Arr(t) == [i \in 0 .. (Len(t) - 1) |-> t[i + 1]]

\* the addresses the documentation's examples construct
DocExamples ==
    << <<0, 0, 0, 0, 0, 0>>,                 \* 00-00-00-00-00-00
       <<255, 255, 255, 255, 255, 255>>,     \* FF-FF-FF-FF-FF-FF
       <<172, 222, 72, 35, 69, 103>>,        \* AC-DE-48-23-45-67
       <<1, 0, 12, 204, 204, 204>>,          \* 01-00-0C-CC-CC-CC
       <<2, 0, 12, 204, 204, 204>>,          \* 02-00-0C-CC-CC-CC
       <<0, 1, 68, 85, 102, 119>>,           \* 00-01-44-55-66-77
       <<1, 35, 69, 103, 137, 171>> >>       \* 01-23-45-67-89-AB

Bases == {Arr(DocExamples[k]) : k \in 1 .. NumBases}

\* every base, and every base with one byte replaced by any u8 value
Inputs == UNION {{[b EXCEPT ![i] = v] : i \in Idx, v \in Byte} : b \in Bases}

\* the byte values stored through the mutable view
WriteVals == {0, 1, 2, 255}

----------------------------------------------------------------------------
(* u8 arithmetic.                                                          *)

RECURSIVE BitAndN(_, _, _)
BitAndN(a, b, n) ==
    IF n = 0 THEN 0
    ELSE (a % 2) * (b % 2) + 2 * BitAndN(a \div 2, b \div 2, n - 1)

\* a & b on u8
BitAnd(a, b) == BitAndN(a, b, U8Bits)

\* a << k on u8 (k < 8)
Shl(a, k) == (a * 2 ^ k) % (U8Max + 1)

----------------------------------------------------------------------------
(* Constructors.                                                           *)

new_swapped(a, b, c, d, e, f) ==
    (0 :> b) @@ (1 :> a) @@ (2 :> c) @@ (3 :> d) @@ (4 :> e) @@ (5 :> f)

\* MacAddr6::new(a, b, c, d, e, f): Self([a, b, c, d, e, f])
new(a, b, c, d, e, f) ==
    (0 :> a) @@ (1 :> b) @@ (2 :> c) @@ (3 :> d) @@ (4 :> e) @@ (5 :> f)

from_reversed(bytes) == [i \in Idx |-> bytes[(N - 1) - i]]

\* From<[u8; 6]>::from(bytes): Self(bytes), the array moved into the struct
from(bytes) == [i \in Idx |-> bytes[i]]

default_ones == [i \in Idx |-> U8Max]

\* derive(Default): every element is u8::default()
default == [i \in Idx |-> 0]

----------------------------------------------------------------------------
(* Predicates.                                                             *)

\* self.0.iter().all(|&b| b == v): stops at the first element that differs
RECURSIVE IterAll(_, _, _)
IterAll(a, v, i) ==
    IF i = N THEN TRUE
    ELSE IF a[i] # v THEN FALSE
    ELSE IterAll(a, v, i + 1)

is_nil_first(a) == a[0] = 0

is_nil(a) == IterAll(a, 0, 0)

is_broadcast_first(a) == a[0] = 255

is_broadcast(a) == IterAll(a, 255, 0)

is_unicast(a) == BitAnd(a[0], 1) = 0

is_multicast_bit1(a) == BitAnd(a[0], 2) = 2

is_multicast(a) == BitAnd(a[0], 1) = 1

\* `self.0[0] & 1 << 1 == 0`: in Rust << binds tighter than &, & tighter than ==
is_universal(a) == BitAnd(a[0], Shl(1, 1)) = 0

is_local_shift_last(a) == Shl(BitAnd(a[0], 1), 1) = 2

is_local(a) == BitAnd(a[0], Shl(1, 1)) = 2

----------------------------------------------------------------------------
(* Raw bytes and views.                                                    *)

\* into_bytes(self): self.0
into_bytes(a) == [i \in Idx |-> a[i]]

\* a slice over an array: its length and the elements it refers to
Slice(a) == [len |-> Cardinality(DOMAIN a), data |-> a]

\* as_ref(&self): &self.0 as &[u8]
as_ref(a) == Slice(a)

\* as_mut(&mut self): &mut self.0 as &mut [u8]
as_mut(a) == Slice(a)

SliceStore_lost(s, i, v) == s.data

\* view[i] = v on a mutable view: the array the view borrows, after the store
SliceStore(s, i, v) == [s.data EXCEPT ![i] = v]

----------------------------------------------------------------------------
(* Derived PartialEq / Eq / PartialOrd / Ord on the tuple struct: the      *)
(* comparison of the single field, a [u8; 6], element by element.          *)

eq(x, y) == \A i \in Idx : x[i] = y[i]

RECURSIVE CmpFrom(_, _, _)
CmpFrom(x, y, i) ==
    IF i = N THEN "Equal"
    ELSE IF x[i] < y[i] THEN "Less"
    ELSE IF x[i] > y[i] THEN "Greater"
    ELSE CmpFrom(x, y, i + 1)

RECURSIVE CmpDown(_, _, _)
CmpDown(x, y, i) ==
    IF i < 0 THEN "Equal"
    ELSE IF x[i] < y[i] THEN "Less"
    ELSE IF x[i] > y[i] THEN "Greater"
    ELSE CmpDown(x, y, i - 1)

cmp_from_last(x, y) == CmpDown(x, y, N - 1)

cmp(x, y) == CmpFrom(x, y, 0)

lt(x, y) == cmp(x, y) = "Less"

gt(x, y) == cmp(x, y) = "Greater"

----------------------------------------------------------------------------
(* Display: "{:02X}-{:02X}-{:02X}-{:02X}-{:02X}-{:02X}".                   *)

UpperHexChars ==
    <<"0", "1", "2", "3", "4", "5", "6", "7",
      "8", "9", "A", "B", "C", "D", "E", "F">>

\* {:X}: the digits of x in base 16, most significant first, no leading zero
RECURSIVE UpperHex(_)
UpperHex(x) ==
    IF x < 16 THEN <<UpperHexChars[x + 1]>>
    ELSE Append(UpperHex(x \div 16), UpperHexChars[(x % 16) + 1])

\* the flag 0 and a width: zeros in front until the text is w characters
RECURSIVE ZeroPad(_, _)
ZeroPad(s, w) == IF Len(s) >= w THEN s ELSE ZeroPad(<<"0">> \o s, w)

Fmt02X_unpadded(b) == UpperHex(b)

\* {:02X}
Fmt02X(b) == ZeroPad(UpperHex(b), 2)

fmt(a) ==
    Fmt02X(a[0]) \o <<"-">> \o Fmt02X(a[1]) \o <<"-">> \o Fmt02X(a[2]) \o <<"-">>
    \o Fmt02X(a[3]) \o <<"-">> \o Fmt02X(a[4]) \o <<"-">> \o Fmt02X(a[5])

----------------------------------------------------------------------------
(* The state machine.                                                      *)

Init ==
    /\ addr = default
    /\ ctor = "default"
    /\ src = <<>>
    /\ orig = addr
    /\ written = <<>>
    /\ nwrites = 0
    /\ op = "default"
    /\ arg = <<>>
    /\ ret = <<>>

\* the binding still holds the value it was declared with
Fresh == op = "default"

\* the binding is assigned a freshly constructed value
Construct(c, s, a) ==
    /\ addr' = a
    /\ ctor' = c
    /\ src' = s
    /\ orig' = a
    /\ written' = <<>>
    /\ nwrites' = 0
    /\ op' = c
    /\ arg' = <<>>
    /\ ret' = <<>>

\* a method that takes &self or a copy of self: the value stays as it is
Call(o, a, r) ==
    /\ op' = o
    /\ arg' = a
    /\ ret' = r
    /\ UNCHANGED <<addr, ctor, src, orig, written, nwrites>>

New(s) == Construct("new", <<s[0], s[1], s[2], s[3], s[4], s[5]>>,
                    new(s[0], s[1], s[2], s[3], s[4], s[5]))

From(s) == Construct("from", s, from(s))

NewAny == Fresh /\ \E s \in Inputs : New(s)

FromAny == Fresh /\ \E s \in Inputs : From(s)

NewBase == Fresh /\ \E s \in Bases : New(s)

FromBase == Fresh /\ \E s \in Bases : From(s)

CallIsNil == Call("is_nil", <<>>, is_nil(addr))

CallIsBroadcast == Call("is_broadcast", <<>>, is_broadcast(addr))

CallIsUnicast == Call("is_unicast", <<>>, is_unicast(addr))

CallIsMulticast == Call("is_multicast", <<>>, is_multicast(addr))

CallIsUniversal == Call("is_universal", <<>>, is_universal(addr))

CallIsLocal == Call("is_local", <<>>, is_local(addr))

CallIntoBytes == Call("into_bytes", <<>>, into_bytes(addr))

CallAsRef == Call("as_ref", <<>>, as_ref(addr))

CallFmt == Call("fmt", <<>>, fmt(addr))

\* x == y, x < y, x > y and x.cmp(&y) against a second address y
Compare ==
    \E y \in Bases :
        Call("compare", y,
             [eq |-> eq(addr, y), lt |-> lt(addr, y),
              gt |-> gt(addr, y), cmp |-> cmp(addr, y)])

\* addr.as_mut()[i] = v
AsMutStore ==
    \E i \in Idx, v \in WriteVals :
        LET view == as_mut(addr) IN
        /\ nwrites < MaxWrites
        /\ i < view.len
        /\ addr' = SliceStore(view, i, v)
        /\ written' = [j \in (DOMAIN written) \cup {i} |->
                          IF j = i THEN v ELSE written[j]]
        /\ nwrites' = nwrites + 1
        /\ op' = "as_mut"
        /\ arg' = <<i, v>>
        /\ ret' = view.len
        /\ UNCHANGED <<ctor, src, orig>>

\* construction from any input, then the read-only operations
Next ==
    \/ NewAny
    \/ FromAny
    \/ CallIsNil
    \/ CallIsBroadcast
    \/ CallIsUnicast
    \/ CallIsMulticast
    \/ CallIsUniversal
    \/ CallIsLocal
    \/ CallIntoBytes
    \/ CallAsRef
    \/ CallFmt

Spec == Init /\ [][Next]_vars

\* construction from any input, then comparisons
NextOrd ==
    \/ NewAny
    \/ FromAny
    \/ Compare

SpecOrd == Init /\ [][NextOrd]_vars

\* construction, stores through the mutable view, and the reads after them
NextMut ==
    \/ NewBase
    \/ FromBase
    \/ AsMutStore
    \/ CallIsNil
    \/ CallIsBroadcast
    \/ CallIsUnicast
    \/ CallIsMulticast
    \/ CallIsUniversal
    \/ CallIsLocal
    \/ CallIntoBytes
    \/ CallAsRef

SpecMut == Init /\ [][NextMut]_vars

TypeOK ==
    /\ addr \in [Idx -> Byte]
    /\ ctor \in {"default", "new", "from"}
    /\ nwrites \in 0 .. (MaxWrites + 1)
    /\ DOMAIN written \subseteq Idx

----------------------------------------------------------------------------
(* Properties.                                                             *)

\* bit k of the byte b, by arithmetic
Bit(b, k) == (b \div (2 ^ k)) % 2

\* C1: an address built by From<[u8; 6]> from s gives back s from
\* into_bytes: six bytes, the same byte at every index.
C1_FromIntoBytesRoundTrip ==
    (ctor = "from" /\ op = "into_bytes") =>
        /\ DOMAIN ret = 0 .. 5
        /\ Cardinality(DOMAIN ret) = 6
        /\ \A i \in 0 .. 5 : ret[i] = src[i]

C1_Witness ==
    /\ ctor = "from"
    /\ op = "into_bytes"
    /\ src = Arr(<<172, 222, 72, 35, 69, 103>>)
    /\ ret = Arr(<<172, 222, 72, 35, 69, 103>>)

\* C2: is_multicast is true iff bit 0 of byte 0 is set, is_unicast iff it is
\* clear; exactly one of the two holds of every address, whatever the other
\* bits and bytes are.
C2_UnicastMulticastBit0 ==
    /\ op = "is_multicast" => (ret <=> Bit(addr[0], 0) = 1)
    /\ op = "is_unicast" => (ret <=> Bit(addr[0], 0) = 0)
    /\ is_unicast(addr) # is_multicast(addr)

C2_Witness ==
    /\ op = "is_multicast"
    /\ ret = TRUE
    /\ addr[0] = 3
    /\ addr[1] = 255
    /\ ~ is_unicast(addr)

\* C3: is_local is true iff bit 1 of byte 0 is set (byte0 & 0x02 == 2),
\* is_universal iff it is clear; exactly one of the two holds of every
\* address: the code's `byte0 & 1 << 1` tests bit 1, not bit 0.
C3_UniversalLocalBit1 ==
    /\ op = "is_local" => (ret <=> Bit(addr[0], 1) = 1)
    /\ op = "is_universal" => (ret <=> Bit(addr[0], 1) = 0)
    /\ is_universal(addr) # is_local(addr)

C3_Witness ==
    /\ op = "is_local"
    /\ ret = TRUE
    /\ Bit(addr[0], 0) = 0
    /\ Bit(addr[0], 1) = 1
    /\ ~ is_universal(addr)

\* C4: is_nil is true iff all six bytes are zero: true of new(0,0,0,0,0,0),
\* false of every address with a non-zero byte at any index.
C4_IsNilIffAllZero ==
    op = "is_nil" =>
        /\ (addr = new(0, 0, 0, 0, 0, 0)) => ret
        /\ (\E i \in 0 .. 5 : addr[i] # 0) => ~ ret

C4_Witness ==
    /\ op = "is_nil"
    /\ ret = FALSE
    /\ addr[5] # 0
    /\ \A i \in 0 .. 4 : addr[i] = 0

\* C5: is_broadcast is true iff all six bytes are 0xFF: true of
\* new(0xFF,...,0xFF), false of every other address, also of one that differs
\* from it in a single byte.
C5_IsBroadcastIffAllFF ==
    op = "is_broadcast" =>
        /\ (addr = new(255, 255, 255, 255, 255, 255)) => ret
        /\ (\E i \in 0 .. 5 : addr[i] # 255) => ~ ret

C5_Witness ==
    /\ op = "is_broadcast"
    /\ ret = FALSE
    /\ addr[5] # 255
    /\ \A i \in 0 .. 4 : addr[i] = 255

\* the value of an uppercase hexadecimal digit, 16 for any other character
HexValue(c) ==
    CASE c = "0" -> 0 [] c = "1" -> 1 [] c = "2" -> 2 [] c = "3" -> 3
      [] c = "4" -> 4 [] c = "5" -> 5 [] c = "6" -> 6 [] c = "7" -> 7
      [] c = "8" -> 8 [] c = "9" -> 9 [] c = "A" -> 10 [] c = "B" -> 11
      [] c = "C" -> 12 [] c = "D" -> 13 [] c = "E" -> 14 [] c = "F" -> 15
      [] OTHER -> 16

\* C6: the Display text is 17 characters: six groups of two uppercase
\* hexadecimal digits, group i the zero-padded value of byte i, one hyphen
\* between consecutive groups; AC-DE-48-23-45-67 for the documented example.
C6_DisplayCanonical ==
    op = "fmt" =>
        /\ Len(ret) = 17
        /\ \A i \in 0 .. 5 :
              /\ HexValue(ret[3 * i + 1]) < 16
              /\ HexValue(ret[3 * i + 2]) < 16
              /\ 16 * HexValue(ret[3 * i + 1]) + HexValue(ret[3 * i + 2]) = addr[i]
        /\ \A i \in 0 .. 4 : ret[3 * i + 3] = "-"
        /\ (addr = new(172, 222, 72, 35, 69, 103)) =>
              ret = <<"A", "C", "-", "D", "E", "-", "4", "8", "-",
                      "2", "3", "-", "4", "5", "-", "6", "7">>

C6_Witness ==
    /\ op = "fmt"
    /\ addr = new(172, 222, 72, 35, 69, 10)
    /\ ret = <<"A", "C", "-", "D", "E", "-", "4", "8", "-",
               "2", "3", "-", "4", "5", "-", "0", "A">>

\* x and y agree before index i and differ at i
FirstDiff(x, y, i) == x[i] # y[i] /\ \A j \in 0 .. (i - 1) : x[j] = y[j]

\* C7: x == y iff all six bytes are equal; for x, y that differ first at
\* index i, x < y iff x[i] < y[i] as unsigned bytes; exactly one of x < y,
\* x == y, x > y holds.
C7_LexicographicOrder ==
    op = "compare" =>
        /\ ret.eq <=> (\A i \in 0 .. 5 : addr[i] = arg[i])
        /\ \A i \in 0 .. 5 :
              FirstDiff(addr, arg, i) =>
                  /\ ret.lt <=> addr[i] < arg[i]
                  /\ ret.gt <=> addr[i] > arg[i]
                  /\ ret.cmp = (IF addr[i] < arg[i] THEN "Less" ELSE "Greater")
        /\ ret.cmp = "Equal" <=> ret.eq
        /\ Cardinality({k \in {"lt", "eq", "gt"} : ret[k]}) = 1

C7_Witness ==
    /\ op = "compare"
    /\ ret.lt
    /\ FirstDiff(addr, arg, 1)
    /\ addr[1] < 128
    /\ arg[1] >= 128
    /\ addr[3] > arg[3]

\* C8: new(a,b,c,d,e,f) stores a..f at indices 0..5 in argument order:
\* into_bytes gives [a,b,c,d,e,f] and the address equals the one From builds
\* from [a,b,c,d,e,f].
C8_NewArgumentOrder ==
    ctor = "new" =>
        /\ \A i \in 0 .. 5 : addr[i] = src[i + 1]
        /\ eq(addr, from(Arr(src)))
        /\ op = "into_bytes" => (\A i \in 0 .. 5 : ret[i] = src[i + 1])

C8_Witness ==
    /\ ctor = "new"
    /\ op = "into_bytes"
    /\ src = <<172, 222, 72, 35, 69, 103>>
    /\ ret[0] = 172
    /\ ret[5] = 103

\* the byte that index i holds after the stores so far
Expected(i) == IF i \in DOMAIN written THEN written[i] ELSE orig[i]

\* C9: after any stores through as_mut the address holds the last value
\* stored at each index stored to and its original byte elsewhere, the views
\* have length 6, and every predicate and into_bytes answers for the bytes
\* as they are now.
C9_MutationThroughView ==
    /\ DOMAIN addr = 0 .. 5
    /\ \A i \in 0 .. 5 : addr[i] = Expected(i)
    /\ op = "as_mut" => (ret = 6 /\ addr[arg[1]] = arg[2])
    /\ op = "as_ref" => (ret.len = 6 /\ \A i \in 0 .. 5 : ret.data[i] = Expected(i))
    /\ op = "into_bytes" => (\A i \in 0 .. 5 : ret[i] = Expected(i))
    /\ op = "is_nil" => (ret <=> \A i \in 0 .. 5 : Expected(i) = 0)
    /\ op = "is_broadcast" => (ret <=> \A i \in 0 .. 5 : Expected(i) = 255)
    /\ op = "is_unicast" => (ret <=> Bit(Expected(0), 0) = 0)
    /\ op = "is_multicast" => (ret <=> Bit(Expected(0), 0) = 1)
    /\ op = "is_universal" => (ret <=> Bit(Expected(0), 1) = 0)
    /\ op = "is_local" => (ret <=> Bit(Expected(0), 1) = 1)

C9_Witness ==
    /\ op = "is_multicast"
    /\ ret = TRUE
    /\ nwrites = 2
    /\ DOMAIN written = {0}
    /\ Bit(orig[0], 0) = 0
    /\ orig[0] # 0

\* C10: the default value is the all-zero address: it equals
\* new(0,0,0,0,0,0) and is_nil is true of it.
C10_DefaultIsNil ==
    ctor = "default" =>
        /\ addr = new(0, 0, 0, 0, 0, 0)
        /\ eq(addr, new(0, 0, 0, 0, 0, 0))
        /\ op = "is_nil" => ret

C10_Witness ==
    /\ ctor = "default"
    /\ op = "is_nil"
    /\ ret = TRUE

====
